---- MODULE Spec2Model ----
(***************************************************************************)
(* A model of the training / prediction pipeline of                        *)
(*   src/python/ml_trainer.py  (class MLTrainer, main)                     *)
(*   src/python/predictor.py   (predict)                                   *)
(*                                                                         *)
(* Tables are small: two rows per split, numeric cells are exact           *)
(* rationals <<num, den>>, a missing cell is NaN.  The scikit-learn        *)
(* transformers (SimpleImputer, LabelEncoder, StandardScaler) are computed *)
(* exactly; an estimator's fit is an opaque primitive that either raises   *)
(* or returns fitted parameters picked from a small set, and its predict   *)
(* is a deterministic function of those parameters and of the row.         *)
(***************************************************************************)
EXTENDS Integers, Sequences, FiniteSets, TLC

VARIABLES
    trainer,    \* the MLTrainer object under use (its attributes)
    disk,       \* the file at the model path: None or the dumped bundle
    ret,        \* what the most recent call returned / raised / wrote
    saved,      \* history: the trainer as it was when disk was last written
    ncalls,     \* number of calls made so far (bounds the run)
    ntrains,    \* number of train calls made so far (bounds the run)
    pc,         \* position of the run: "api" in Spec and SpecTrain, the step
                \* of main() in SpecMain, the pending call otherwise
    inp         \* the inputs of the run: the label vectors of SpecMetrics,
                \* the command line and the table of SpecMain

vars == <<trainer, disk, ret, saved, ncalls, ntrains, pc, inp>>

(***************************************************************************)
(* Bounds                                                                  *)
(***************************************************************************)
\* calls in a run of Spec
MaxCalls == 3
\* train calls on one trainer in a run of Spec
MaxTrains == 2
\* fitted parameters an opaque fit may return: 0..MaxParam
MaxParam == 1
\* train calls in a run of SpecTrain
MaxDetailTrains == 1
\* label values of SpecMetrics: 0..MaxLabel
MaxLabel == 2
\* rows of the label vectors of SpecMetrics
MaxLen == 3
\* features of the trainers of SpecImportance
MaxFeatures == 2
\* rows of a 2-D coef_ in SpecImportance
MaxCoefRows == 2

(***************************************************************************)
(* Values                                                                  *)
(***************************************************************************)
None == [kind |-> "None"]

IsNone(x) == x.kind = "None"

NaN == <<0, 0>>

IsNaN(c) == c[2] = 0

Abs(n) == IF n < 0 THEN -n ELSE n

RECURSIVE GCD(_, _)
GCD(a, b) == IF b = 0 THEN a ELSE GCD(b, a % b)

\* the rational n/d in lowest terms with a positive denominator
Rat(n, d) ==
    LET g == GCD(Abs(n), Abs(d))
        s == IF d < 0 THEN -1 ELSE 1
    IN  IF n = 0 THEN <<0, 1>> ELSE <<s * (n \div g), s * (d \div g)>>

RatAdd(a, b) == Rat(a[1] * b[2] + b[1] * a[2], a[2] * b[2])

RatSub(a, b) == Rat(a[1] * b[2] - b[1] * a[2], a[2] * b[2])

RatMul(a, b) == Rat(a[1] * b[1], a[2] * b[2])

RatDiv(a, b) == Rat(a[1] * b[2], a[2] * b[1])

RatLess(a, b) == a[1] * b[2] < b[1] * a[2]

Int2Rat(n) == <<n, 1>>

Range(s) == {s[i] : i \in DOMAIN s}

RECURSIVE RatSum(_)
RatSum(s) == IF s = <<>> THEN <<0, 1>> ELSE RatAdd(Head(s), RatSum(Tail(s)))

\* np.unique on integers: the distinct values in increasing order
RECURSIVE SortedInts(_)
SortedInts(S) ==
    IF S = {} THEN <<>>
    ELSE LET m == CHOOSE x \in S : \A y \in S : x <= y
         IN  <<m>> \o SortedInts(S \ {m})

\* the strings of the model in lexicographic order (TLA+ strings are unordered)
StrOrder == <<"a", "b", "c", "n", "y">>

StrRank(s) == CHOOSE i \in DOMAIN StrOrder : StrOrder[i] = s

RECURSIVE SortedStrs(_)
SortedStrs(S) ==
    IF S = {} THEN <<>>
    ELSE LET m == CHOOSE x \in S : \A y \in S : StrRank(x) <= StrRank(y)
         IN  <<m>> \o SortedStrs(S \ {m})

\* position of v in the sequence s, 0 when absent
IndexOf(s, v) == IF v \in Range(s) THEN CHOOSE i \in DOMAIN s : s[i] = v ELSE 0

RECURSIVE SumInts(_)
SumInts(s) == IF s = <<>> THEN 0 ELSE Head(s) + SumInts(Tail(s))

(***************************************************************************)
(* Tables.  A feature table X is [columns, col]: the ordered column names  *)
(* and, per name, a column [dtype, cells].  A float64 column holds         *)
(* rationals and NaN, an object column holds strings.  A target y is one   *)
(* column.                                                                 *)
(***************************************************************************)
IsObject(c) == c.dtype = "object"

Rows(X) == DOMAIN X.col[X.columns[1]].cells

ColNames(X) == Range(X.columns)

\* X.isnull().any().any()
HasNull(X) ==
    \E n \in ColNames(X) :
        ~IsObject(X.col[n]) /\ \E i \in DOMAIN X.col[n].cells : IsNaN(X.col[n].cells[i])

\* X.select_dtypes(include=['object', 'category']).columns
CategoricalCols(X) == {n \in ColNames(X) : IsObject(X.col[n])}

(***************************************************************************)
(* sklearn.impute.SimpleImputer(strategy='mean')                           *)
(***************************************************************************)
Present(cells) == SelectSeq(cells, LAMBDA c : ~IsNaN(c))

\* statistics_ of one column: the mean of its cells that are present
ColumnMean(cells) == RatDiv(RatSum(Present(cells)), Int2Rat(Len(Present(cells))))

\* fit_transform raises on non-numeric data; a column with no value present is
\* dropped, and rebuilding the frame with the old columns then raises
ImputerRaises(X) ==
    \/ CategoricalCols(X) # {}
    \/ \E n \in ColNames(X) : Present(X.col[n].cells) = <<>>

ImputeColumn(c) ==
    [dtype |-> "float64",
     cells |-> [i \in DOMAIN c.cells |->
                   IF IsNaN(c.cells[i]) THEN ColumnMean(c.cells) ELSE c.cells[i]]]

\* imputer.fit_transform(X), rebuilt as a frame with the columns of X
ImputerFitTransform(X) ==
    [columns |-> X.columns, col |-> [n \in ColNames(X) |-> ImputeColumn(X.col[n])]]

\* the columns the imputer filled, each with the value it filled in
ImputationValues(X) ==
    [n \in {m \in ColNames(X) : \E i \in DOMAIN X.col[m].cells : IsNaN(X.col[m].cells[i])}
        |-> ColumnMean(X.col[n].cells)]

(***************************************************************************)
(* sklearn.preprocessing.LabelEncoder                                      *)
(***************************************************************************)
\* fit: classes_ are the distinct values, sorted
LabelEncoderFit(cells) == [kind |-> "LabelEncoder", classes_ |-> SortedStrs(Range(cells))]

\* transform raises on a value that is not among classes_
LabelEncoderUnseen(le, cells) == \E i \in DOMAIN cells : cells[i] \notin Range(le.classes_)

\* transform: the 0-based position of each value in classes_
LabelEncoderTransform(le, cells) ==
    [i \in DOMAIN cells |-> IndexOf(le.classes_, cells[i]) - 1]

\* inverse_transform raises on a code outside 0 .. len(classes_)-1
LabelEncoderBadCode(le, codes) ==
    \E i \in DOMAIN codes : codes[i] < 0 \/ codes[i] >= Len(le.classes_)

LabelEncoderInverse(le, codes) == [i \in DOMAIN codes |-> le.classes_[codes[i] + 1]]

\* X[col] = LabelEncoder().fit_transform(X[col].astype(str)) for one column
EncodeColumn(c) ==
    [dtype |-> "int64",
     cells |-> [i \in DOMAIN c.cells |->
                   Int2Rat(LabelEncoderTransform(LabelEncoderFit(c.cells), c.cells)[i])]]

EncodeCategoricals(X) ==
    [columns |-> X.columns,
     col |-> [n \in ColNames(X) |->
                IF IsObject(X.col[n]) THEN EncodeColumn(X.col[n]) ELSE X.col[n]]]

(***************************************************************************)
(* sklearn.preprocessing.StandardScaler                                    *)
(***************************************************************************)
ColumnVar(cells) ==
    LET m == ColumnMean(cells)
        sq == [i \in DOMAIN cells |-> RatMul(RatSub(cells[i], m), RatSub(cells[i], m))]
    IN  RatDiv(RatSum(sq), Int2Rat(Len(cells)))

\* fit: mean_ and var_ per column position
StandardScalerFit(X) ==
    [kind  |-> "StandardScaler",
     mean_ |-> [j \in DOMAIN X.columns |-> ColumnMean(X.col[X.columns[j]].cells)],
     var_  |-> [j \in DOMAIN X.columns |-> ColumnVar(X.col[X.columns[j]].cells)]]

\* (x - mean) / scale with scale = sqrt(var), or 1 when var is 0.  The quotient
\* is kept exactly as <<sign, q>> with q = (x - mean)^2 / scale^2.
ScaleCell(x, mean, var) ==
    LET d == RatSub(x, mean)
        s2 == IF var[1] = 0 THEN <<1, 1>> ELSE var
        q == RatDiv(RatMul(d, d), s2)
        sign == IF d[1] < 0 THEN -1 ELSE IF d[1] = 0 THEN 0 ELSE 1
    IN  <<sign, q[1], q[2]>>

\* transform raises when the number of columns differs from the fitted one
StandardScalerMismatch(sc, X) == Len(sc.mean_) # Len(X.columns)

StandardScalerTransform(sc, X) ==
    [columns |-> X.columns,
     col |-> [n \in ColNames(X) |->
                LET j == IndexOf(X.columns, n)
                IN  [dtype |-> "float64",
                     cells |-> [i \in DOMAIN X.col[n].cells |->
                                  ScaleCell(X.col[n].cells[i], sc.mean_[j], sc.var_[j])]]]]

\* X.values: the rows of the frame, each a sequence of cells in column order
Values(X) == [i \in Rows(X) |-> [j \in DOMAIN X.columns |-> X.col[X.columns[j]].cells[i]]]

(***************************************************************************)
(* Estimators.  The registry maps identifiers to scikit-learn classes; a   *)
(* class fixes which attributes a fitted estimator exposes.                *)
(***************************************************************************)
CLASSIFICATION_ALGORITHMS ==
    [logistic_regression |-> "LogisticRegression",
     random_forest       |-> "RandomForestClassifier",
     gradient_boosting   |-> "GradientBoostingClassifier",
     knn                 |-> "KNeighborsClassifier"]

REGRESSION_ALGORITHMS ==
    [linear_regression |-> "LinearRegression",
     random_forest     |-> "RandomForestRegressor",
     gradient_boosting |-> "GradientBoostingRegressor",
     knn               |-> "KNeighborsRegressor"]

\* dict.get: the class registered under the key, or None
RegistryGet(registry, key) ==
    IF key \in DOMAIN registry THEN [kind |-> registry[key]] ELSE None

Classifiers == Range(CLASSIFICATION_ALGORITHMS)

TreeModels ==
    {"RandomForestClassifier", "GradientBoostingClassifier",
     "RandomForestRegressor", "GradientBoostingRegressor"}

LinearModels == {"LogisticRegression", "LinearRegression"}

\* hasattr(model, 'predict_proba'): every classifier of the registry has it,
\* no regressor has
HasPredictProba(model) == model.kind \in Classifiers

\* hasattr(model, 'feature_importances_'): a fitted tree ensemble
HasFeatureImportances(model) == model.kind \in TreeModels /\ model.fitted

\* hasattr(model, 'coef_'): a fitted linear model
HasCoef(model) == model.kind \in LinearModels /\ model.fitted

\* model_class(**hyperparameters): an estimator that is not fitted yet
NewModel(cls) ==
    [kind |-> cls, fitted |-> FALSE, classes_ |-> <<>>, w |-> <<>>,
     feature_importances_ |-> <<>>, coef_ |-> <<>>, coef_ndim |-> 0]

\* the parameter vectors an opaque fit may return for n features: the rotations
\* of 0, 1, .., MaxParam
FitChoices(cls, n) ==
    {[j \in 1..n |-> (k + j - 1) % (MaxParam + 1)] : k \in 0..MaxParam}

\* how the construction and the fit of an estimator may end: the constructor
\* raises on the hyperparameters, the fit raises, or the fit returns parameters
FitOutcomes(cls, n) ==
    {[raises |-> "constructor", w |-> <<>>], [raises |-> "fit", w |-> <<>>]}
    \cup {[raises |-> "", w |-> w] : w \in FitChoices(cls, n)}

\* model.fit(X, y) returning parameters w: the targets seen, the parameters, and
\* the attribute the class exposes (coef_ is 2-D for LogisticRegression)
FitModel(model, y, w) ==
    [kind |-> model.kind, fitted |-> TRUE,
     classes_ |-> SortedInts(Range(y)),
     w |-> w,
     feature_importances_ |-> IF model.kind \in TreeModels THEN w ELSE <<>>,
     coef_ |-> IF model.kind \in LinearModels THEN <<w>> ELSE <<>>,
     coef_ndim |-> IF model.kind = "LogisticRegression" THEN 2
                   ELSE IF model.kind = "LinearRegression" THEN 1 ELSE 0]

RowScore(w, row) == SumInts([j \in DOMAIN row |-> w[j] * SumInts(row[j])])

\* model.predict(X): per row one of the targets seen in fit, a fixed function of
\* the fitted parameters and of the row
ModelPredict(model, Xv) ==
    [i \in DOMAIN Xv |->
        model.classes_[(RowScore(model.w, Xv[i]) % Len(model.classes_)) + 1]]

(***************************************************************************)
(* class MLTrainer                                                         *)
(***************************************************************************)
\* MLTrainer.__init__
NewTrainer(algorithm, problem_type) ==
    [algorithm |-> algorithm, problem_type |-> problem_type,
     model |-> None, scaler |-> None, label_encoder |-> None,
     feature_names |-> <<>>]

\* MLTrainer._get_model_class
GetModelClass(T) ==
    IF T.problem_type = "classification"
    THEN RegistryGet(CLASSIFICATION_ALGORITHMS, T.algorithm)
    ELSE RegistryGet(REGRESSION_ALGORITHMS, T.algorithm)

ScaledAlgorithms == {"logistic_regression", "knn"}

SplitName(is_training) == IF is_training THEN "train" ELSE "test"

\* lines 112-113: the training call stores the column names
StoreFeatureNames(T, X, is_training) ==
    IF is_training THEN [T EXCEPT !.feature_names = X.columns] ELSE T

\* lines 116-131: a fresh imputer is fitted when a cell is missing, then a fresh
\* encoder per categorical column, whatever the split
PreprocessFeatures(X) ==
    IF HasNull(X)
    THEN IF ImputerRaises(X)
         THEN [raised |-> "ValueError: imputer", X |-> X]
         ELSE [raised |-> "", X |-> EncodeCategoricals(ImputerFitTransform(X))]
    ELSE [raised |-> "", X |-> EncodeCategoricals(X)]

Scaled(T, X) == [trainer |-> T, raised |-> "", X |-> StandardScalerTransform(T.scaler, X)]

\* lines 134-140: the scaler is fitted on the training split and reused on the
\* test split
ScaleFeatures(T, f, is_training) ==
    IF f.raised # "" \/ T.algorithm \notin ScaledAlgorithms
    THEN [trainer |-> T, raised |-> f.raised, X |-> f.X]
    ELSE IF is_training
    THEN Scaled([T EXCEPT !.scaler = StandardScalerFit(f.X)], f.X)
    ELSE IF IsNone(T.scaler) \/ StandardScalerMismatch(T.scaler, f.X)
    THEN [trainer |-> T, raised |-> "ValueError: scaler", X |-> f.X]
    ELSE Scaled(T, f.X)

Encoded(T, X, y) ==
    [trainer |-> T, raised |-> "", X |-> Values(X),
     y |-> LabelEncoderTransform(T.label_encoder, y.cells), ydtype |-> "int64"]

\* lines 143-151: the target is encoded for classification when it is not
\* numeric; the encoder is fitted on the training split and reused on the test
\* split; nothing else ever assigns label_encoder
HandleTarget(s, y, is_training) ==
    IF s.raised # ""
    THEN [trainer |-> s.trainer, raised |-> s.raised, X |-> <<>>, y |-> y.cells,
          ydtype |-> y.dtype]
    ELSE IF s.trainer.problem_type = "classification" /\ y.dtype = "object"
    THEN IF is_training
         THEN Encoded([s.trainer EXCEPT !.label_encoder = LabelEncoderFit(y.cells)],
                      s.X, y)
         ELSE IF IsNone(s.trainer.label_encoder)
                 \/ LabelEncoderUnseen(s.trainer.label_encoder, y.cells)
         THEN [trainer |-> s.trainer,
               raised |-> "ValueError: y contains previously unseen labels",
               X |-> <<>>, y |-> y.cells, ydtype |-> y.dtype]
         ELSE Encoded(s.trainer, s.X, y)
    ELSE [trainer |-> s.trainer, raised |-> "", X |-> Values(s.X), y |-> y.cells,
          ydtype |-> y.dtype]

\* MLTrainer._preprocess_data: the trainer afterwards, what was raised ("" when
\* nothing), and X.values and y
PreprocessData(T, X, y, is_training) ==
    HandleTarget(ScaleFeatures(StoreFeatureNames(T, X, is_training),
                               PreprocessFeatures(X), is_training),
                 y, is_training)

\* The transformers one _preprocess_data call fits, in order, each with the
\* split it is fitted on: the imputer (line 118-120), the per-column encoders
\* (130-131), the scaler (136-137) and the target encoder (146-147)
PreprocessFits(T, X, y, is_training) ==
    LET split == SplitName(is_training)
        imputerFails == HasNull(X) /\ ImputerRaises(X)
    IN  (IF HasNull(X) THEN <<<<"imputer", split>>>> ELSE <<>>)
        \o (IF ~imputerFails /\ CategoricalCols(X) # {}
            THEN <<<<"encoder", split>>>> ELSE <<>>)
        \o (IF ~imputerFails /\ T.algorithm \in ScaledAlgorithms /\ is_training
            THEN <<<<"scaler", split>>>> ELSE <<>>)
        \o (IF ~imputerFails /\ T.problem_type = "classification"
               /\ y.dtype = "object" /\ is_training
            THEN <<<<"label_encoder", split>>>> ELSE <<>>)

\* the value the call fills into each column that has missing cells
PreprocessImputed(X, is_training) ==
    IF HasNull(X) /\ ~ImputerRaises(X)
    THEN {[col |-> n, split |-> SplitName(is_training),
           value |-> ImputationValues(X)[n]] : n \in DOMAIN ImputationValues(X)}
    ELSE {}

\* the integer code the call gives each value of each categorical column
PreprocessEncoded(X, is_training) ==
    IF HasNull(X)
    THEN {}
    ELSE {[col |-> n, split |-> SplitName(is_training), value |-> X.col[n].cells[i],
           code |-> EncodeColumn(X.col[n]).cells[i][1]] :
              n \in CategoricalCols(X), i \in Rows(X)}

(***************************************************************************)
(* MLTrainer._calculate_metrics                                            *)
(***************************************************************************)
\* a variant with one row and one column per label of y_true only
ConfusionLabelsOfTrue(y_true, y_pred) == SortedInts(Range(y_true))

\* sklearn.metrics.confusion_matrix(y_true, y_pred) with labels left to default:
\* one row and one column per label that occurs in y_true or in y_pred, sorted
ConfusionLabels(y_true, y_pred) == SortedInts(Range(y_true) \cup Range(y_pred))

ConfusionMatrix(y_true, y_pred) ==
    LET labels == ConfusionLabels(y_true, y_pred)
    IN  [r \in DOMAIN labels |->
            [c \in DOMAIN labels |->
                Cardinality({i \in DOMAIN y_true :
                                y_true[i] = labels[r] /\ y_pred[i] = labels[c]})]]

\* len(np.unique(y_true))
NClasses(y_true) == Cardinality(Range(y_true))

\* precision_score(..., average='binary') raises when the labels of y_true and
\* y_pred together are not binary, or when pos_label 1 is not among two labels
BinaryAverageRaises(y_true, y_pred) ==
    LET present == Range(y_true) \cup Range(y_pred)
    IN  /\ NClasses(y_true) = 2
        /\ \/ Cardinality(present) > 2
           \/ 1 \notin present

\* accuracy_score: the fraction of rows predicted right
Accuracy(y_true, y_pred) ==
    Rat(Cardinality({i \in DOMAIN y_true : y_true[i] = y_pred[i]}), Len(y_true))

\* the metrics of one evaluation; precision, recall and F1 are floats computed
\* by the library and are not carried
CalculateMetrics(T, y_true, y_pred) ==
    IF T.problem_type = "classification"
    THEN [kind |-> "classification",
          accuracy |-> Accuracy(y_true, y_pred),
          average |-> IF NClasses(y_true) = 2 THEN "binary" ELSE "weighted",
          roc_auc |-> IF NClasses(y_true) = 2 /\ HasPredictProba(T.model)
                         /\ Len(T.model.classes_) >= 2
                      THEN "float" ELSE "None",
          confusion_matrix |-> ConfusionMatrix(y_true, y_pred)]
    ELSE [kind |-> "regression",
          accuracy |-> <<0, 1>>, average |-> "", roc_auc |-> "None",
          confusion_matrix |-> <<>>]

(***************************************************************************)
(* MLTrainer._get_feature_importance                                       *)
(***************************************************************************)
\* np.abs(coef_).mean(axis=0): per feature, the mean over the rows of coef_
MeanAbsCoef(coef) ==
    [j \in DOMAIN coef[1] |->
        Rat(SumInts([r \in DOMAIN coef |-> Abs(coef[r][j])]), Len(coef))]

\* the importances array the model's capability yields
Importances(model) ==
    IF HasFeatureImportances(model)
    THEN [j \in DOMAIN model.feature_importances_ |-> Int2Rat(model.feature_importances_[j])]
    ELSE IF model.coef_ndim > 1
         THEN MeanAbsCoef(model.coef_)
         ELSE [j \in DOMAIN model.coef_[1] |-> Int2Rat(Abs(model.coef_[1][j]))]

Min(a, b) == IF a < b THEN a ELSE b

\* zip(feature_names, importances): pairs up to the shorter of the two
ZipImportance(names, imps) ==
    [j \in 1..Min(Len(names), Len(imps)) |-> [feature |-> names[j], importance |-> imps[j]]]

\* list.sort(key=importance, reverse=True): stable, largest first
RECURSIVE InsertDesc(_, _)
InsertDesc(sorted, e) ==
    IF sorted = <<>> THEN <<e>>
    ELSE IF RatLess(Head(sorted).importance, e.importance)
         THEN <<e>> \o sorted
         ELSE <<Head(sorted)>> \o InsertDesc(Tail(sorted), e)

RECURSIVE SortDesc(_)
SortDesc(list) ==
    IF list = <<>> THEN <<>>
    ELSE InsertDesc(SortDesc(SubSeq(list, 1, Len(list) - 1)), list[Len(list)])

\* a variant that leaves the list in the order of feature_names
GetFeatureImportanceUnsorted(T, attr_raises) ==
    IF IsNone(T.model) \/ ~(HasFeatureImportances(T.model) \/ HasCoef(T.model))
    THEN <<>>
    ELSE IF attr_raises THEN <<>>
    ELSE ZipImportance(T.feature_names, Importances(T.model))

\* attr_raises: reading the model's attribute raises inside the try block, which
\* happens before the first entry is appended
GetFeatureImportance(T, attr_raises) ==
    IF IsNone(T.model) \/ ~(HasFeatureImportances(T.model) \/ HasCoef(T.model))
    THEN <<>>
    ELSE IF attr_raises THEN <<>>
    ELSE SortDesc(ZipImportance(T.feature_names, Importances(T.model)))

(***************************************************************************)
(* MLTrainer.train                                                         *)
(***************************************************************************)
\* what a call returned, raised and did; every call fills the fields it has
NoRet ==
    [op |-> "", raised |-> "", steps |-> <<>>, fits |-> <<>>,
     imputed |-> {}, encoded |-> {}, y_true |-> <<>>, y_pred |-> <<>>,
     metrics |-> None, feature_importance |-> <<>>,
     wrote |-> FALSE, loaded |-> None, missing |-> {}, prediction |-> <<>>,
     codes |-> <<>>, columns |-> {}, added |-> {}, ydtype |-> "",
     exit |-> -1, success |-> FALSE]

TrainRaised(p, d, steps) ==
    [trainer |-> p.trainer, raised |-> p.raised, cls |-> None, steps |-> steps,
     X_train |-> <<>>, y_train |-> <<>>, X_test |-> <<>>, y_test |-> <<>>,
     ydtype |-> p.ydtype, target |-> d.y_train.dtype]

\* lines 184-186: the registry lookup comes after both splits are preprocessed
LookupModelClass(p1, p2, d) ==
    IF p2.raised # ""
    THEN TrainRaised(p2, d, <<"preprocess_train", "preprocess_test">>)
    ELSE [trainer |-> p2.trainer,
          raised |-> IF IsNone(GetModelClass(p2.trainer))
                     THEN "ValueError: Unknown algorithm" ELSE "",
          cls |-> GetModelClass(p2.trainer),
          steps |-> <<"preprocess_train", "preprocess_test", "get_model_class">>,
          X_train |-> p1.X, y_train |-> p1.y, X_test |-> p2.X, y_test |-> p2.y,
          ydtype |-> p1.ydtype, target |-> d.y_train.dtype]

\* lines 179-181: the test split is preprocessed with is_training=False
PreprocessTest(p1, d) ==
    IF p1.raised # ""
    THEN TrainRaised(p1, d, <<"preprocess_train">>)
    ELSE LookupModelClass(p1, PreprocessData(p1.trainer, d.X_test, d.y_test, FALSE), d)

\* lines 172-186: both preprocessing calls, then the registry lookup
TrainHead(T, d) == PreprocessTest(PreprocessData(T, d.X_train, d.y_train, TRUE), d)

ReachedTest(T, d) == PreprocessData(T, d.X_train, d.y_train, TRUE).raised = ""

\* what the preprocessing calls of one train call fitted and produced; the test
\* split is reached only when the training split raised nothing
TrainFitted(T, d) ==
    [fits |-> PreprocessFits(T, d.X_train, d.y_train, TRUE)
              \o (IF ReachedTest(T, d)
                  THEN PreprocessFits(T, d.X_test, d.y_test, FALSE) ELSE <<>>),
     imputed |-> PreprocessImputed(d.X_train, TRUE)
                 \cup (IF ReachedTest(T, d) THEN PreprocessImputed(d.X_test, FALSE) ELSE {}),
     encoded |-> PreprocessEncoded(d.X_train, TRUE)
                 \cup (IF ReachedTest(T, d) THEN PreprocessEncoded(d.X_test, FALSE) ELSE {})]

TrainRet(h, raised, steps) ==
    [NoRet EXCEPT !.op = "train", !.raised = raised, !.steps = h.steps \o steps,
                  !.ydtype = h.target]

\* lines 199-213: metrics, feature importance and the result
Report(h, T, y_pred) ==
    IF T.problem_type = "classification" /\ BinaryAverageRaises(h.y_test, y_pred)
    THEN [trainer |-> T,
          ret |-> [TrainRet(h, "ValueError: average='binary'",
                            <<"construct", "fit", "predict", "metrics">>)
                      EXCEPT !.y_true = h.y_test, !.y_pred = y_pred]]
    ELSE [trainer |-> T,
          ret |-> [TrainRet(h, "", <<"construct", "fit", "predict", "metrics",
                                     "feature_importance">>)
                      EXCEPT !.y_true = h.y_test, !.y_pred = y_pred,
                             !.metrics = CalculateMetrics(T, h.y_test, y_pred),
                             !.feature_importance = GetFeatureImportance(T, FALSE),
                             !.success = TRUE]]

\* lines 196-213 with the fitted model in place
Evaluate(h, T) == Report(h, T, ModelPredict(T.model, h.X_test))

\* lines 188-213 after a successful lookup, for one outcome o of constructing
\* and fitting the estimator (a fit always raises on a target of strings).
\* self.model is assigned before fit is called.
TrainTail(h, o) ==
    IF o.raises = "constructor"
    THEN [trainer |-> h.trainer,
          ret |-> TrainRet(h, "TypeError: unexpected keyword argument", <<"construct">>)]
    ELSE IF o.raises = "fit" \/ h.ydtype = "object"
    THEN [trainer |-> [h.trainer EXCEPT !.model = NewModel(h.cls.kind)],
          ret |-> TrainRet(h, "ValueError: fit", <<"construct", "fit">>)]
    ELSE Evaluate(h, [h.trainer EXCEPT
                         !.model = FitModel(NewModel(h.cls.kind), h.y_train, o.w)])

(***************************************************************************)
(* MLTrainer.save_model / MLTrainer.load_model                             *)
(***************************************************************************)
\* joblib.dump of the bundle dict: the file holds the (key, value) items
Dump(T) ==
    <<<<"model", T.model>>, <<"scaler", T.scaler>>,
      <<"label_encoder", T.label_encoder>>,
      <<"feature_names", T.feature_names>>,
      <<"algorithm", T.algorithm>>, <<"problem_type", T.problem_type>>>>

\* model_bundle[key] on the dict joblib.load returns
BundleGet(file, key) == file[CHOOSE i \in DOMAIN file : file[i][1] = key][2]

\* a file is None or the dumped items
NoFile == <<>>

\* a variant that restores everything but the label encoder
LoadModelFromNoEncoder(file) ==
    [NewTrainer(BundleGet(file, "algorithm"), BundleGet(file, "problem_type"))
        EXCEPT !.model = BundleGet(file, "model"),
               !.scaler = BundleGet(file, "scaler"),
               !.feature_names = BundleGet(file, "feature_names")]

\* MLTrainer.load_model on a file that exists
LoadModelFrom(file) ==
    [NewTrainer(BundleGet(file, "algorithm"), BundleGet(file, "problem_type"))
        EXCEPT !.model = BundleGet(file, "model"),
               !.scaler = BundleGet(file, "scaler"),
               !.label_encoder = BundleGet(file, "label_encoder"),
               !.feature_names = BundleGet(file, "feature_names")]

(***************************************************************************)
(* predictor.predict                                                       *)
(***************************************************************************)
\* model.predict raises on an estimator that was never fitted, on a row whose
\* width is not the fitted one, and on a missing value
PredictRaises(model, X) ==
    \/ ~model.fitted
    \/ Len(model.w) # Len(X.columns)
    \/ HasNull(X)

\* a variant that reports every feature name as soon as one is missing
MissingFeaturesAll(T, df) ==
    IF Range(T.feature_names) \ ColNames(df) = {} THEN {} ELSE Range(T.feature_names)

\* set(trainer.feature_names) - set(df.columns)
MissingFeatures(T, df) == Range(T.feature_names) \ ColNames(df)

\* a variant that never decodes
ShouldDecodeNever(T) == FALSE

\* whether the predictions are passed through label_encoder.inverse_transform:
\* the decoding sits inside the branch taken when the model has predict_proba
ShouldDecode(T) ==
    /\ HasPredictProba(T.model)
    /\ T.problem_type = "classification"
    /\ ~IsNone(T.label_encoder)

\* a value of the output table's 'prediction' column: a number the model
\* predicted, or the label it decodes to
IntCell(n) == [kind |-> "int", int |-> n, str |-> ""]

StrCell(v) == [kind |-> "str", int |-> 0, str |-> v]

\* the except branch (lines 100-105): {success: False, error: str(e)} and no file
PredictFailed(df, msg, steps) ==
    [NoRet EXCEPT !.op = "predict", !.raised = msg, !.steps = steps,
                  !.columns = ColNames(df)]

\* X = df[trainer.feature_names]
SelectFeatures(T, df) ==
    [columns |-> T.feature_names, col |-> [n \in Range(T.feature_names) |-> df.col[n]]]

\* the steps of lines 35-62 for the selected columns X
PredictSteps(T, X) ==
    <<"load_model", "read_csv", "validate">>
    \o (IF CategoricalCols(X) # {} THEN <<"encode">> ELSE <<>>)
    \o (IF IsNone(T.scaler) THEN <<>> ELSE <<"scale">>)

\* the columns lines 79-88 add to a copy of the input table
AddedColumns(T) ==
    {"prediction"}
    \cup (IF HasPredictProba(T.model) THEN {"confidence"} ELSE {})
    \cup (IF HasPredictProba(T.model) /\ Len(T.model.classes_) = 2
          THEN {"probability_class_0", "probability_class_1"} ELSE {})

\* lines 68-98: probabilities, decoding, the output table and the response
WritePredictions(T, df, X, predictions) ==
    IF ShouldDecode(T) /\ LabelEncoderBadCode(T.label_encoder, predictions)
    THEN PredictFailed(df, "ValueError: y contains previously unseen labels",
                       PredictSteps(T, X) \o <<"predict", "predict_proba", "decode">>)
    ELSE [NoRet EXCEPT
            !.op = "predict", !.success = TRUE, !.wrote = TRUE,
            !.columns = ColNames(df),
            !.added = AddedColumns(T),
            !.fits = IF CategoricalCols(X) # {}
                     THEN <<<<"encoder", "inference">>>> ELSE <<>>,
            !.steps = PredictSteps(T, X) \o <<"predict">>
                      \o (IF HasPredictProba(T.model) THEN <<"predict_proba">> ELSE <<>>)
                      \o (IF ShouldDecode(T) THEN <<"decode">> ELSE <<>>)
                      \o <<"to_csv">>,
            !.codes = predictions,
            !.prediction =
                IF ShouldDecode(T)
                THEN [i \in DOMAIN predictions |->
                        StrCell(LabelEncoderInverse(T.label_encoder, predictions)[i])]
                ELSE [i \in DOMAIN predictions |-> IntCell(predictions[i])]]

\* lines 59-66 on the encoded columns X1: scaling with the artifact's scaler,
\* then the model's predictions
ScaleAndPredict(T, df, X, X1) ==
    IF ~IsNone(T.scaler) /\ StandardScalerMismatch(T.scaler, X1)
    THEN PredictFailed(df, "ValueError: scaler", PredictSteps(T, X))
    ELSE IF PredictRaises(T.model, X1)
    THEN PredictFailed(df, "ValueError: predict", PredictSteps(T, X) \o <<"predict">>)
    ELSE WritePredictions(T, df, X,
            ModelPredict(T.model,
                         Values(IF IsNone(T.scaler) THEN X1
                                ELSE StandardScalerTransform(T.scaler, X1))))

\* lines 51-57: a fresh LabelEncoder is fitted on each categorical input column
EncodeAndPredict(T, df, X) == ScaleAndPredict(T, df, X, EncodeCategoricals(X))

\* lines 43-98 for the loaded trainer T and the input table df
PredictWith(T, df) ==
    IF MissingFeatures(T, df) # {}
    THEN [PredictFailed(df, "ValueError: Missing required features",
                        <<"load_model", "read_csv", "validate">>)
             EXCEPT !.missing = MissingFeatures(T, df)]
    ELSE EncodeAndPredict(T, df, SelectFeatures(T, df))

\* the whole of predict(model_path, input_data_path, output_path) for the file at
\* the model path and the input table df
Predict(file, df) ==
    IF file = NoFile
    THEN PredictFailed(df, "FileNotFoundError", <<"load_model">>)
    ELSE PredictWith(LoadModelFrom(file), df)

(***************************************************************************)
(* Inputs                                                                  *)
(***************************************************************************)
Algorithms ==
    {"logistic_regression", "random_forest", "gradient_boosting", "knn",
     "linear_regression", "svm"}

ProblemTypes == {"classification", "regression", "clustering"}

R(n) == Int2Rat(n)

\* a float64 column of a dataset, as its train cells and its test cells
AgeSamples ==
    {[train |-> <<R(1), R(3)>>, test |-> <<R(3), R(1)>>],
     [train |-> <<R(1), NaN>>,  test |-> <<R(3), NaN>>],
     [train |-> <<R(1), R(3)>>, test |-> <<NaN, NaN>>]}

\* an object column of a dataset
CitySamples ==
    {[train |-> <<"a", "b">>, test |-> <<"b", "b">>],
     [train |-> <<"a", "b">>, test |-> <<"a", "b">>]}

ColumnOrders == {<<"age">>, <<"city">>, <<"age", "city">>, <<"city", "age">>}

\* targets: int64 ones and object ones, each as train cells and test cells
TargetSamples ==
    {[dtype |-> "int64",  train |-> <<0, 1>>, test |-> <<0, 0>>],
     [dtype |-> "int64",  train |-> <<0, 1>>, test |-> <<1, 0>>],
     [dtype |-> "object", train |-> <<"n", "y">>, test |-> <<"y", "n">>],
     [dtype |-> "object", train |-> <<"n", "n">>, test |-> <<"y", "n">>]}

Frame(order, age, city) ==
    [columns |-> order,
     col |-> [n \in Range(order) |->
                IF n = "age" THEN [dtype |-> "float64", cells |-> age]
                ELSE [dtype |-> "object", cells |-> city]]]

\* the datasets, already split, built from the given column and target samples
DatasetsOf(ages, cities, targets) ==
    {[X_train |-> Frame(o, a.train, c.train), X_test |-> Frame(o, a.test, c.test),
      y_train |-> [dtype |-> y.dtype, cells |-> y.train],
      y_test  |-> [dtype |-> y.dtype, cells |-> y.test]] :
        o \in ColumnOrders, a \in ages, c \in cities, y \in targets}

\* the datasets a train call of Spec may be given
Datasets ==
    {d \in DatasetsOf({a \in AgeSamples : a.test # <<NaN, NaN>>},
                      {c \in CitySamples : c.test = <<"b", "b">>},
                      {y \in TargetSamples : y.dtype = "object" \/ y.test # <<0, 0>>}) :
        d.X_train.columns # <<"city">>}

\* the tables a predict call may be given
InputTables ==
    {Frame(o, a, <<"b", "a">>) :
        o \in ColumnOrders, a \in {<<R(1), R(3)>>, <<R(3), NaN>>}}

(***************************************************************************)
(* Calls on one trainer and on the file it saves: Spec                     *)
(***************************************************************************)
Init ==
    /\ trainer \in {NewTrainer(a, p) : a \in Algorithms, p \in ProblemTypes}
    /\ disk = NoFile
    /\ saved = None
    /\ ret = NoRet
    /\ ncalls = 0
    /\ ntrains = 0
    /\ pc = "api"
    /\ inp = None

\* what Spec keeps of a train call's result: what it raised and how far it got
Outcome(r) == [NoRet EXCEPT !.op = r.op, !.raised = r.raised, !.steps = r.steps,
                            !.ydtype = r.ydtype, !.success = r.success]

\* a train call that got as far as h and, past the lookup, ends as o
TrainEnds(h) ==
    IF h.raised # ""
    THEN /\ trainer' = h.trainer
         /\ ret' = Outcome(TrainRet(h, h.raised, <<>>))
    ELSE \E o \in FitOutcomes(h.cls.kind, Len(h.trainer.feature_names)) :
            /\ trainer' = TrainTail(h, o).trainer
            /\ ret' = Outcome(TrainTail(h, o).ret)

\* trainer.train(X_train, X_test, y_train, y_test) on one of the datasets
Train ==
    /\ ncalls < MaxCalls
    /\ ntrains < MaxTrains
    /\ \E d \in Datasets : TrainEnds(TrainHead(trainer, d))
    /\ ncalls' = ncalls + 1
    /\ ntrains' = ntrains + 1
    /\ UNCHANGED <<disk, saved, pc, inp>>

\* trainer.save_model(filepath)
SaveModel ==
    /\ ncalls < MaxCalls
    /\ IF IsNone(trainer.model)
       THEN /\ ret' = [NoRet EXCEPT !.op = "save_model",
                                    !.raised = "ValueError: No model to save"]
            /\ UNCHANGED <<disk, saved>>
       ELSE /\ disk' = Dump(trainer)
            /\ saved' = trainer
            /\ ret' = [NoRet EXCEPT !.op = "save_model", !.wrote = TRUE,
                                    !.success = TRUE]
    /\ ncalls' = ncalls + 1
    /\ UNCHANGED <<trainer, ntrains, pc, inp>>

\* MLTrainer.load_model(filepath)
LoadModel ==
    /\ ncalls < MaxCalls
    /\ IF disk = NoFile
       THEN ret' = [NoRet EXCEPT !.op = "load_model", !.raised = "FileNotFoundError"]
       ELSE ret' = [NoRet EXCEPT !.op = "load_model", !.success = TRUE,
                                 !.loaded = LoadModelFrom(disk)]
    /\ ncalls' = ncalls + 1
    /\ UNCHANGED <<trainer, disk, saved, ntrains, pc, inp>>

\* predictor.predict(model_path, input_data_path, output_path)
PredictCall ==
    /\ ncalls < MaxCalls
    /\ \E df \in InputTables : ret' = Predict(disk, df)
    /\ ncalls' = ncalls + 1
    /\ UNCHANGED <<trainer, disk, saved, ntrains, pc, inp>>

Next == Train \/ SaveModel \/ LoadModel \/ PredictCall

Spec == Init /\ [][Next]_vars

(***************************************************************************)
(* Properties of Spec                                                      *)
(***************************************************************************)
\* C1: when the first train call on a trainer raises the unknown-algorithm
\* error, no preprocessing step has run on either split and feature_names,
\* scaler and label_encoder still have their constructor values.
C1_FailsBeforeDataIsTouched ==
    (ntrains = 1 /\ ret.op = "train" /\ ret.raised = "ValueError: Unknown algorithm")
        => /\ "preprocess_train" \notin Range(ret.steps)
           /\ "preprocess_test" \notin Range(ret.steps)
           /\ trainer.feature_names = <<>>
           /\ IsNone(trainer.scaler)
           /\ IsNone(trainer.label_encoder)

\* C2: a train call on a (problem_type, algorithm) pair outside the registered
\* combinations that gets as far as the registry lookup ends in the
\* configuration error and neither constructs nor fits a model.
C2_UnregisteredPairIsRefused ==
    (/\ ret.op = "train"
     /\ "get_model_class" \in Range(ret.steps)
     /\ ~ \/ /\ trainer.problem_type = "classification"
             /\ trainer.algorithm \in {"logistic_regression", "random_forest",
                                       "gradient_boosting", "knn"}
          \/ /\ trainer.problem_type = "regression"
             /\ trainer.algorithm \in {"linear_regression", "random_forest",
                                       "gradient_boosting", "knn"})
        => /\ ret.raised = "ValueError: Unknown algorithm"
           /\ "construct" \notin Range(ret.steps)
           /\ "fit" \notin Range(ret.steps)
           /\ IsNone(trainer.model)

\* C4: a predict call on an artifact fails with the missing-features error
\* naming exactly the artifact's feature names absent from the input columns,
\* before any encoding, scaling or model call and without writing the output,
\* when that set is not empty; when it is empty there is no such error.
C4_MissingFeaturesAreNamedExactly ==
    (ret.op = "predict" /\ disk # NoFile)
        => IF Range(saved.feature_names) \ ret.columns # {}
           THEN /\ ~ret.success
                /\ ret.raised = "ValueError: Missing required features"
                /\ ret.missing = Range(saved.feature_names) \ ret.columns
                /\ ret.steps = <<"load_model", "read_csv", "validate">>
                /\ ~ret.wrote
           ELSE /\ ret.raised # "ValueError: Missing required features"
                /\ ret.missing = {}

\* a predict call on an artifact with two features, one of them absent
C4_Witness ==
    /\ ret.op = "predict"
    /\ disk # NoFile
    /\ Len(saved.feature_names) = 2
    /\ Cardinality(ret.missing) = 1
    /\ ~ret.success

\* C5: when the artifact carries a label encoder, every value a predict call
\* writes to the 'prediction' column is the label at the position the model
\* predicted in the encoder's classes.
C5_PredictionsAreDecoded ==
    (ret.op = "predict" /\ ret.success /\ ~IsNone(saved.label_encoder))
        => /\ DOMAIN ret.prediction = DOMAIN ret.codes
           /\ \A i \in DOMAIN ret.codes :
                ret.prediction[i] = StrCell(saved.label_encoder.classes_[ret.codes[i] + 1])

\* a predict call that wrote decoded labels, both classes of the encoder
\* being known
C5_Witness ==
    /\ ret.op = "predict"
    /\ ret.success
    /\ ~IsNone(saved.label_encoder)
    /\ Len(saved.label_encoder.classes_) = 2
    /\ ret.codes # <<>>
    /\ "decode" \in Range(ret.steps)

\* C6: load_model on the bundle save_model wrote yields a trainer with the
\* algorithm, problem_type, feature_names, scaler, label_encoder and model of
\* the trainer that was saved, and predicting through it gives what predicting
\* through the saved trainer gives, on every input table.
C6_RoundTrip ==
    (ret.op = "load_model" /\ ret.success)
        => /\ ret.loaded.algorithm = saved.algorithm
           /\ ret.loaded.problem_type = saved.problem_type
           /\ ret.loaded.feature_names = saved.feature_names
           /\ ret.loaded.scaler = saved.scaler
           /\ ret.loaded.label_encoder = saved.label_encoder
           /\ ret.loaded.model = saved.model
           /\ \A df \in InputTables : PredictWith(ret.loaded, df) = PredictWith(saved, df)

\* a bundle with a fitted model, a scaler and a label encoder was loaded
C6_Witness ==
    /\ ret.op = "load_model"
    /\ ret.success
    /\ saved.model.fitted
    /\ ~IsNone(saved.scaler)
    /\ ~IsNone(saved.label_encoder)
    /\ Len(saved.feature_names) = 2

\* C10: after a train call that completed, label_encoder is set only if the
\* problem type is classification and the target of that call was not
\* numeric.
C10_LabelEncoderOnlyForNonNumericTarget ==
    (ret.op = "train" /\ ret.success /\ ~IsNone(trainer.label_encoder))
        => /\ trainer.problem_type = "classification"
           /\ ret.ydtype = "object"

(***************************************************************************)
(* One train call observed in full, then the file and a prediction:        *)
(* SpecTrain                                                               *)
(***************************************************************************)
\* every dataset of the samples
AllDatasets == DatasetsOf(AgeSamples, CitySamples, TargetSamples)

\* the result of a train call together with what its preprocessing fitted
Observed(r, f) ==
    [r EXCEPT !.fits = f.fits, !.imputed = f.imputed, !.encoded = f.encoded]

TrainDetailEnds(h, f) ==
    IF h.raised # ""
    THEN /\ trainer' = h.trainer
         /\ ret' = Observed(TrainRet(h, h.raised, <<>>), f)
    ELSE \E o \in FitOutcomes(h.cls.kind, Len(h.trainer.feature_names)) :
            /\ trainer' = TrainTail(h, o).trainer
            /\ ret' = Observed(TrainTail(h, o).ret, f)

\* trainer.train(X_train, X_test, y_train, y_test), everything observed
TrainDetail ==
    /\ ncalls < MaxCalls
    /\ ntrains < MaxDetailTrains
    /\ \E d \in AllDatasets : TrainDetailEnds(TrainHead(trainer, d), TrainFitted(trainer, d))
    /\ ncalls' = ncalls + 1
    /\ ntrains' = ntrains + 1
    /\ UNCHANGED <<disk, saved, pc, inp>>

NextTrain == TrainDetail \/ SaveModel \/ PredictCall

SpecTrain == Init /\ [][NextTrain]_vars

\* C3: a call that completes has fitted no transformer on a test split or on
\* inference data, so within it a column has one imputation value and a
\* category value of a column has one integer code, those of the training
\* split.
C3_TransformOnlyOutsideTraining ==
    ret.success =>
    /\ \A i \in DOMAIN ret.fits : ret.fits[i][2] = "train"
    /\ \A a, b \in ret.imputed : a.col = b.col => a.value = b.value
    /\ \A a, b \in ret.encoded : (a.col = b.col /\ a.value = b.value) => a.code = b.code

(***************************************************************************)
(* _calculate_metrics on label vectors: SpecMetrics                        *)
(***************************************************************************)
Labels == 0..MaxLabel

\* the vectors of n labels
LabelVectors(n) == [1..n -> Labels]

\* a trainer whose model was fitted on every label
MetricsTrainers ==
    {[NewTrainer(a, "classification")
        EXCEPT !.model = FitModel(NewModel(CLASSIFICATION_ALGORITHMS[a]),
                                  [i \in 1..(MaxLabel + 1) |-> i - 1], <<0>>),
               !.feature_names = <<"age">>] : a \in DOMAIN CLASSIFICATION_ALGORITHMS}
    \cup
    {[NewTrainer("linear_regression", "regression")
        EXCEPT !.model = FitModel(NewModel("LinearRegression"), <<0, 1>>, <<0>>),
               !.feature_names = <<"age">>]}

InitMetrics ==
    /\ trainer \in MetricsTrainers
    /\ \E n \in 1..MaxLen :
          inp \in [y_true : LabelVectors(n), y_pred : LabelVectors(n)]
    /\ disk = NoFile
    /\ saved = None
    /\ ret = NoRet
    /\ ncalls = 0
    /\ ntrains = 0
    /\ pc = "metrics"

\* self._calculate_metrics(y_test, y_pred, X_test): the metrics, or what the
\* binary-average scores raise
MetricsCall(T, y_true, y_pred) ==
    IF T.problem_type = "classification" /\ BinaryAverageRaises(y_true, y_pred)
    THEN [NoRet EXCEPT !.op = "metrics", !.raised = "ValueError: average='binary'",
                       !.y_true = y_true, !.y_pred = y_pred]
    ELSE [NoRet EXCEPT !.op = "metrics", !.success = TRUE,
                       !.y_true = y_true, !.y_pred = y_pred,
                       !.metrics = CalculateMetrics(T, y_true, y_pred)]

CalculateMetricsCall ==
    /\ pc = "metrics"
    /\ ret' = MetricsCall(trainer, inp.y_true, inp.y_pred)
    /\ pc' = "done"
    /\ UNCHANGED <<trainer, disk, saved, ncalls, ntrains, inp>>

NextMetrics == CalculateMetricsCall

SpecMetrics == InitMetrics /\ [][NextMetrics]_vars

\* C8 as stated: for classification the confusion matrix has k rows and k
\* columns, k being the number of distinct values in the true labels.
C8_MatrixOverTrueLabels ==
    (ret.op = "metrics" /\ ret.success /\ trainer.problem_type = "classification")
        => /\ Len(ret.metrics.confusion_matrix) = Cardinality(Range(inp.y_true))
           /\ \A r \in DOMAIN ret.metrics.confusion_matrix :
                Len(ret.metrics.confusion_matrix[r]) = Cardinality(Range(inp.y_true))

\* C8 amended: for classification the confusion matrix has k rows and k
\* columns, k being the number of distinct values that occur in the true
\* labels or in the predicted labels.
C8_MatrixOverAllLabels ==
    (ret.op = "metrics" /\ ret.success /\ trainer.problem_type = "classification")
        => /\ Len(ret.metrics.confusion_matrix)
                = Cardinality(Range(inp.y_true) \cup Range(inp.y_pred))
           /\ \A r \in DOMAIN ret.metrics.confusion_matrix :
                Len(ret.metrics.confusion_matrix[r])
                    = Cardinality(Range(inp.y_true) \cup Range(inp.y_pred))

\* metrics were computed for predictions holding a label that no true label has
C8_Witness ==
    /\ ret.op = "metrics"
    /\ ret.success
    /\ trainer.problem_type = "classification"
    /\ Range(inp.y_pred) \ Range(inp.y_true) # {}
    /\ Cardinality(Range(inp.y_true)) = 1
    /\ Len(ret.metrics.confusion_matrix) = 3

(***************************************************************************)
(* _get_feature_importance on fitted models: SpecImportance                *)
(***************************************************************************)
FeaturePool == {"age", "city", "zip"}

\* the column names of a training table: n distinct names in some order
FeatureNames(n) ==
    {f \in [1..n -> FeaturePool] : \A i, j \in 1..n : f[i] = f[j] => i = j}

\* a 2-D coef_ of the given number of rows: row r is the first row with
\* (r - 1) * (j - 1) added to its entry j
CoefMatrix(v, rows) ==
    [r \in 1..rows |-> [j \in DOMAIN v |-> v[j] + (r - 1) * (j - 1)]]

\* the models a completed fit on n features may leave: tree ensembles with
\* feature_importances_, LogisticRegression with a 2-D coef_, LinearRegression
\* with a 1-D coef_, and a model with neither attribute
FittedModels(n) ==
    {[FitModel(NewModel(k), <<0, 1>>, w) EXCEPT !.feature_importances_ = w] :
        k \in {"RandomForestClassifier", "GradientBoostingRegressor"},
        w \in [1..n -> 0..MaxParam]}
    \cup
    {[FitModel(NewModel("LogisticRegression"), <<0, 1>>, v)
        EXCEPT !.coef_ = CoefMatrix(v, rows)] :
        v \in [1..n -> (-MaxParam)..MaxParam], rows \in 1..MaxCoefRows}
    \cup
    {FitModel(NewModel("LinearRegression"), <<0, 1>>, v) :
        v \in [1..n -> (-MaxParam)..MaxParam]}
    \cup
    {FitModel(NewModel("KNeighborsClassifier"), <<0, 1>>, [j \in 1..n |-> 0])}

\* the trainers as they are when train reaches line 202
ImportanceTrainers ==
    UNION {{[NewTrainer("random_forest", "classification")
                EXCEPT !.model = m, !.feature_names = f] :
              f \in FeatureNames(n), m \in FittedModels(n)} : n \in 1..MaxFeatures}

InitImportance ==
    /\ trainer \in ImportanceTrainers
    /\ inp = None
    /\ disk = NoFile
    /\ saved = None
    /\ ret = NoRet
    /\ ncalls = 0
    /\ ntrains = 0
    /\ pc = "importance"

\* self._get_feature_importance()
GetFeatureImportanceCall ==
    /\ pc = "importance"
    /\ \E attr_raises \in BOOLEAN :
          ret' = [NoRet EXCEPT !.op = "importance", !.success = TRUE,
                               !.feature_importance =
                                   GetFeatureImportance(trainer, attr_raises)]
    /\ pc' = "done"
    /\ UNCHANGED <<trainer, disk, saved, ncalls, ntrains, inp>>

NextImportance == GetFeatureImportanceCall

SpecImportance == InitImportance /\ [][NextImportance]_vars

\* C9: a non-empty feature importance list has as many entries as there are
\* feature names, names each feature exactly once, and its importances never
\* increase along the list.
C9_OneEntryPerFeatureDescending ==
    (ret.op = "importance" /\ ret.feature_importance # <<>>)
        => /\ Len(ret.feature_importance) = Len(trainer.feature_names)
           /\ \A n \in Range(trainer.feature_names) :
                Cardinality({i \in DOMAIN ret.feature_importance :
                                ret.feature_importance[i].feature = n}) = 1
           /\ \A i \in 1..(Len(ret.feature_importance) - 1) :
                ~RatLess(ret.feature_importance[i].importance,
                         ret.feature_importance[i + 1].importance)

\* a list for a 2-D coef_ of two rows in which the sort moved the second
\* feature ahead of the first
C9_Witness ==
    /\ ret.op = "importance"
    /\ Len(ret.feature_importance) = 2
    /\ trainer.model.coef_ndim = 2
    /\ Len(trainer.model.coef_) = 2
    /\ ret.feature_importance[1].feature = trainer.feature_names[2]
    /\ RatLess(ret.feature_importance[2].importance, ret.feature_importance[1].importance)

(***************************************************************************)
(* ml_trainer.main, one run: SpecMain                                      *)
(***************************************************************************)
\* an artifact an earlier run left at model_output_path
OldArtifact ==
    Dump([NewTrainer("knn", "regression")
            EXCEPT !.model = FitModel(NewModel("KNeighborsRegressor"), <<0, 1>>, <<0>>),
                   !.feature_names = <<"age">>])

\* what an interrupted joblib.dump leaves at the path
TruncatedFile == <<<<"truncated", None>>>>

\* the command line (argv[1] present or not, its JSON well formed with every
\* key or not, the algorithm and problem type it names) and the file already
\* at model_output_path; dataset and has_target are known once the CSV is read
MainInputs ==
    [argv : BOOLEAN, config : {"ok", "malformed"},
     algorithm : Algorithms, problem_type : ProblemTypes,
     disk0 : {NoFile, OldArtifact},
     dataset : {None}, has_target : {FALSE}]

InitMain ==
    /\ inp \in MainInputs
    /\ trainer = NewTrainer(inp.algorithm, inp.problem_type)
    /\ disk = inp.disk0
    /\ saved = None
    /\ ret = [NoRet EXCEPT !.op = "main"]
    /\ ncalls = 0
    /\ ntrains = 0
    /\ pc = "start"

\* the run enters a step of the try block
MainStep(r, step) == [r EXCEPT !.steps = r.steps \o <<step>>]

\* a variant of the except block that exits with status 0
MainExceptExitZero(r, msg) ==
    [r EXCEPT !.raised = msg, !.success = FALSE, !.exit = 0]

\* the except block (lines 430-437): {success: False, error} and sys.exit(1)
MainExcept(r, msg) ==
    [r EXCEPT !.raised = msg, !.success = FALSE, !.exit = 1]

\* lines 373-375: without a config argument, the usage line and sys.exit(1)
MainArgv ==
    /\ pc = "start"
    /\ IF inp.argv
       THEN pc' = "parse" /\ ret' = ret
       ELSE pc' = "exit" /\ ret' = [MainStep(ret, "usage") EXCEPT !.exit = 1]
    /\ UNCHANGED <<trainer, disk, saved, ncalls, ntrains, inp>>

\* lines 379-387: json.loads and the required keys
MainParse ==
    /\ pc = "parse"
    /\ IF inp.config = "ok"
       THEN pc' = "read_csv" /\ ret' = MainStep(ret, "parse")
       ELSE pc' = "exit"
            /\ ret' = MainExcept(MainStep(ret, "parse"), "JSONDecodeError or KeyError")
    /\ UNCHANGED <<trainer, disk, saved, ncalls, ntrains, inp>>

\* line 391: pd.read_csv raises, or yields a table with or without the target
\* column
MainReadCsv ==
    /\ pc = "read_csv"
    /\ \/ /\ pc' = "exit"
          /\ ret' = MainExcept(MainStep(ret, "read_csv"), "FileNotFoundError")
          /\ inp' = inp
       \/ /\ pc' = "validate"
          /\ ret' = MainStep(ret, "read_csv")
          /\ \E d \in Datasets, b \in BOOLEAN :
                inp' = [inp EXCEPT !.dataset = d, !.has_target = b]
    /\ UNCHANGED <<trainer, disk, saved, ncalls, ntrains>>

\* lines 394-395: the target column must be a column of the table
MainValidate ==
    /\ pc = "validate"
    /\ IF inp.has_target
       THEN pc' = "split" /\ ret' = MainStep(ret, "validate")
       ELSE pc' = "exit"
            /\ ret' = MainExcept(MainStep(ret, "validate"),
                                 "ValueError: Target column not found in dataset")
    /\ UNCHANGED <<trainer, disk, saved, ncalls, ntrains, inp>>

\* lines 398-408: train_test_split yields the split of the dataset or raises
\* (a train_size the table cannot honour, a class too small to stratify)
MainSplit ==
    /\ pc = "split"
    /\ \/ pc' = "train" /\ ret' = MainStep(ret, "split")
       \/ pc' = "exit"
          /\ ret' = MainExcept(MainStep(ret, "split"), "ValueError: train_test_split")
    /\ UNCHANGED <<trainer, disk, saved, ncalls, ntrains, inp>>

\* how trainer.train ends inside main
MainTrainEnds(T, r) ==
    /\ trainer' = T
    /\ IF r.raised # ""
       THEN pc' = "exit" /\ ret' = MainExcept(MainStep(ret, "train"), r.raised)
       ELSE pc' = "save" /\ ret' = MainStep(ret, "train")

MainTrainFrom(h) ==
    IF h.raised # ""
    THEN MainTrainEnds(h.trainer, TrainRet(h, h.raised, <<>>))
    ELSE \E o \in FitOutcomes(h.cls.kind, Len(h.trainer.feature_names)) :
            MainTrainEnds(TrainTail(h, o).trainer, TrainTail(h, o).ret)

\* lines 411-414: MLTrainer(...) and trainer.train on the split
MainTrain ==
    /\ pc = "train"
    /\ MainTrainFrom(TrainHead(trainer, inp.dataset))
    /\ UNCHANGED <<disk, saved, ncalls, ntrains, inp>>

\* line 417: save_model writes the bundle, or joblib.dump raises having written
\* nothing or a part of the file
MainSave ==
    /\ pc = "save"
    /\ \/ /\ disk' = Dump(trainer)
          /\ saved' = trainer
          /\ pc' = "print"
          /\ ret' = [MainStep(ret, "save") EXCEPT !.wrote = TRUE]
       \/ /\ disk' \in {disk, TruncatedFile}
          /\ saved' = saved
          /\ pc' = "exit"
          /\ ret' = MainExcept(MainStep(ret, "save"), "OSError")
    /\ UNCHANGED <<trainer, ncalls, ntrains, inp>>

\* lines 420-428: the success response; main returns and the status is 0
MainPrint ==
    /\ pc = "print"
    /\ ret' = [MainStep(ret, "print") EXCEPT !.success = TRUE, !.exit = 0]
    /\ pc' = "exit"
    /\ UNCHANGED <<trainer, disk, saved, ncalls, ntrains, inp>>

NextMain ==
    \/ MainArgv \/ MainParse \/ MainReadCsv \/ MainValidate
    \/ MainSplit \/ MainTrain \/ MainSave \/ MainPrint

SpecMain == InitMain /\ [][NextMain]_vars

\* C7: a run of main that raised before save_model was entered, or whose
\* table lacks the target column, or that reached train for classification
\* or regression with an algorithm not registered for it, has ended with
\* success false and exit
\* status 1 and has left the file at model_output_path as it was; a run that
\* has ended with success true or exit status 0 has ended with both, after
\* writing the bundle of its trainer.
C7_FailureWritesNoArtifact ==
    pc = "exit" =>
        /\ ((\/ ret.raised # "" /\ "save" \notin Range(ret.steps)
             \/ "validate" \in Range(ret.steps) /\ ~inp.has_target
             \/ /\ "train" \in Range(ret.steps)
                /\ \/ /\ inp.problem_type = "classification"
                      /\ inp.algorithm \notin {"logistic_regression", "random_forest",
                                               "gradient_boosting", "knn"}
                   \/ /\ inp.problem_type = "regression"
                      /\ inp.algorithm \notin {"linear_regression", "random_forest",
                                               "gradient_boosting", "knn"})
                => /\ ~ret.success
                   /\ ret.exit = 1
                   /\ ret.raised # ""
                   /\ disk = inp.disk0
                   /\ IsNone(saved))
        /\ ((ret.success \/ ret.exit = 0)
                => /\ ret.success
                   /\ ret.exit = 0
                   /\ ret.raised = ""
                   /\ ret.wrote
                   /\ ~IsNone(trainer.model)
                   /\ disk = Dump(trainer)
                   /\ saved = trainer)

\* a run that failed on an unknown algorithm with an older artifact at the
\* path, which is still there
C7_Witness ==
    /\ pc = "exit"
    /\ ret.raised = "ValueError: Unknown algorithm"
    /\ ret.exit = 1
    /\ inp.disk0 = OldArtifact
    /\ disk = OldArtifact

(***************************************************************************)
(* Train and save calls with the origin of each attribute: SpecBundle      *)
(***************************************************************************)
\* per attribute, the number of the train call that assigned it last; 0 when
\* only the constructor did
SetByNone == [feature_names |-> 0, scaler |-> 0, label_encoder |-> 0, model |-> 0]

\* the origins after train call n, which fitted f.fits and returned r:
\* feature_names is assigned first (line 113), scaler and label_encoder where
\* the training split fits them (136, 146), model at line 189, which is
\* reached exactly when the call went on to fit
SetBy(prev, f, r, n) ==
    [feature_names |-> n,
     scaler |-> IF <<"scaler", "train">> \in Range(f.fits) THEN n ELSE prev.scaler,
     label_encoder |-> IF <<"label_encoder", "train">> \in Range(f.fits)
                       THEN n ELSE prev.label_encoder,
     model |-> IF "fit" \in Range(r.steps) THEN n ELSE prev.model]

InitBundle ==
    /\ trainer \in {NewTrainer(a, p) : a \in Algorithms, p \in ProblemTypes}
    /\ inp = SetByNone
    /\ disk = NoFile
    /\ saved = None
    /\ ret = NoRet
    /\ ncalls = 0
    /\ ntrains = 0
    /\ pc = "api"

TrainTrackedEnds(h, f) ==
    IF h.raised # ""
    THEN /\ trainer' = h.trainer
         /\ ret' = Outcome(TrainRet(h, h.raised, <<>>))
         /\ inp' = SetBy(inp, f, TrainRet(h, h.raised, <<>>), ntrains + 1)
    ELSE \E o \in FitOutcomes(h.cls.kind, Len(h.trainer.feature_names)) :
            /\ trainer' = TrainTail(h, o).trainer
            /\ ret' = Outcome(TrainTail(h, o).ret)
            /\ inp' = SetBy(inp, f, TrainTail(h, o).ret, ntrains + 1)

\* trainer.train(X_train, X_test, y_train, y_test), origins recorded
TrainTracked ==
    /\ ncalls < MaxCalls
    /\ ntrains < MaxTrains
    /\ \E d \in Datasets :
          TrainTrackedEnds(TrainHead(trainer, d), TrainFitted(trainer, d))
    /\ ncalls' = ncalls + 1
    /\ ntrains' = ntrains + 1
    /\ UNCHANGED <<disk, saved, pc>>

NextBundle == TrainTracked \/ SaveModel

SpecBundle == InitBundle /\ [][NextBundle]_vars

\* C11: save_model writes a bundle exactly when the trainer is coherent: its
\* model is one whose fit completed, and feature_names, and scaler and
\* label_encoder where set, were assigned by the train call that assigned
\* that model; otherwise it raises and writes nothing.
C11_SavedBundleIsCoherent ==
    ret.op = "save_model"
        => /\ ret.wrote
                <=> /\ ~IsNone(trainer.model)
                    /\ trainer.model.fitted
                    /\ inp.feature_names = inp.model
                    /\ IsNone(trainer.scaler) \/ inp.scaler = inp.model
                    /\ IsNone(trainer.label_encoder) \/ inp.label_encoder = inp.model
           /\ ret.wrote => disk = Dump(trainer)
           /\ ~ret.wrote => ret.raised = "ValueError: No model to save"

====
